---- MODULE Spec2Model ----
(***************************************************************************)
(* SNOMED subset builder (tools/snomed_builder): the RF2 snapshot reader,  *)
(* the subset extractor, the feature-map validator inside build.main and   *)
(* the SQLite writer, as one state machine.  A build is a single thread of *)
(* control; pc is its position in build.main (or in build_subset_rows when *)
(* the extractor is exercised alone).                                      *)
(*                                                                         *)
(* Text is modelled as a tuple of one-character strings so that strip,     *)
(* upper, isdigit and int are computed rather than assumed.                *)
(***************************************************************************)
EXTENDS Integers, Sequences, FiniteSets, TLC

VARIABLES
    rf2,              \* the release on disk and the reader object over it
    seedFile,         \* the lines of the --subset file
    args,             \* the parsed command line of build.main
    mapFile,          \* the data rows of the --feature-map CSV
    call,             \* the keyword arguments of build_subset_rows
    pc,               \* position of the build
    seed_ids,         \* main: seed_ids
    kept_concepts,    \* build_subset_rows: kept_concepts
    concept_rows,     \* build_subset_rows: concept_rows
    kept_desc_ids,    \* build_subset_rows: kept_desc_ids
    description_rows, \* build_subset_rows: description_rows
    desc_read,        \* rows pulled from iter_descriptions so far
    langrefset_rows,  \* build_subset_rows: langrefset_rows
    isa_edges,        \* main: isa_edges
    fsn_index,        \* main: fsn_index
    report_rows,      \* main: report_rows
    feature_map_rows, \* main: feature_map_rows
    reportFile,       \* the validation report on disk (NoReport until written)
    exit_code,        \* process exit status (Running until the process ends)
    conn,             \* SQLiteWriter.conn: the connection's view of the tables
    db,               \* the output file: what is committed
    run,              \* which build against this output target is running
    plan,             \* how many times the operator runs the build
    prev              \* what the previous build against this target left

vars == <<rf2, seedFile, args, mapFile, call, pc, seed_ids, kept_concepts,
          concept_rows, kept_desc_ids, description_rows, desc_read,
          langrefset_rows, isa_edges, fsn_index, report_rows,
          feature_map_rows, reportFile, exit_code, conn, db, run, plan, prev>>

inputVars == <<rf2, seedFile, args, mapFile, plan>>
subsetVars == <<kept_concepts, concept_rows, kept_desc_ids, description_rows,
                desc_read, langrefset_rows>>
mapVars == <<fsn_index, report_rows, feature_map_rows, reportFile>>
storeVars == <<conn, db>>

-----------------------------------------------------------------------------
(* Bounds of the model. *)

MaxDescs == 2       \* description rows in a drawn release
MaxLang == 1        \* language refset rows in a drawn release
MaxRels == 1        \* relationship rows in a drawn release
MaxLimit == 2       \* largest --limit / limit_descriptions drawn
MaxMapRows == 2     \* data rows in a drawn feature-map CSV
MaxRuns == 2        \* builds run in sequence against one output target

-----------------------------------------------------------------------------
(* Text helpers: Python str.strip, str.upper, str.isdigit, int, str.split. *)

Range(s) == {s[i] : i \in 1..Len(s)}

Digits == {"0", "1", "2", "3", "4", "5", "6", "7", "8", "9"}

IsSpace(c) == c = " "

RECURSIVE LStrip(_)
LStrip(s) == IF s = <<>> THEN s
             ELSE IF IsSpace(Head(s)) THEN LStrip(Tail(s)) ELSE s

RECURSIVE RStrip(_)
RStrip(s) == IF s = <<>> THEN s
             ELSE IF IsSpace(s[Len(s)]) THEN RStrip(SubSeq(s, 1, Len(s) - 1))
             ELSE s

Strip(s) == RStrip(LStrip(s))

UpperChar(c) ==
    CASE c = "t" -> "T" [] c = "r" -> "R" [] c = "u" -> "U" [] c = "e" -> "E"
      [] c = "y" -> "Y" [] c = "s" -> "S" [] c = "n" -> "N" [] c = "o" -> "O"
      [] c = "a" -> "A" [] c = "b" -> "B" [] c = "x" -> "X"
      [] OTHER -> c

Upper(s) == [i \in 1..Len(s) |-> UpperChar(s[i])]

IsDigitStr(s) == s # <<>> /\ \A i \in 1..Len(s) : s[i] \in Digits

DigitVal(c) ==
    CASE c = "0" -> 0 [] c = "1" -> 1 [] c = "2" -> 2 [] c = "3" -> 3
      [] c = "4" -> 4 [] c = "5" -> 5 [] c = "6" -> 6 [] c = "7" -> 7
      [] c = "8" -> 8 [] c = "9" -> 9

RECURSIVE DigitsToNat(_)
DigitsToNat(s) == IF s = <<>> THEN 0
                  ELSE 10 * DigitsToNat(SubSeq(s, 1, Len(s) - 1)) + DigitVal(s[Len(s)])

\* int(text) for a stripped text: an optional sign, then decimal digits.
IntParses(s) ==
    IF s # <<>> /\ Head(s) \in {"+", "-"} THEN IsDigitStr(Tail(s)) ELSE IsDigitStr(s)

IntOf(s) ==
    IF Head(s) = "-" THEN 0 - DigitsToNat(Tail(s))
    ELSE IF Head(s) = "+" THEN DigitsToNat(Tail(s))
    ELSE DigitsToNat(s)

\* line.split("#", 1)[0]
RECURSIVE BeforeHash(_)
BeforeHash(s) == IF s = <<>> THEN s
                 ELSE IF Head(s) = "#" THEN <<>>
                 ELSE <<Head(s)>> \o BeforeHash(Tail(s))

-----------------------------------------------------------------------------
(* Program constants (subset.py, build.py). *)

FSN_TYPE_ID == "900000000000003001"
SYN_TYPE_ID == "900000000000013009"
EN_GB_LANGREFSET == "900000000000508004"
EN_US_LANGREFSET == "900000000000509007"
ISA_TYPE_ID == "116680003"
AffirmativeFlags == {<<"T", "R", "U", "E">>, <<"1">>, <<"Y", "E", "S">>, <<"Y">>}

NoneValue == "None"          \* Python None
NoneText == <<"None">>       \* Python None where a text is expected
Running == "running"         \* exit status of a process that has not ended
NoReport == [written |-> FALSE, rows |-> <<>>]

-----------------------------------------------------------------------------
(* rf2_reader.RF2Snapshot. *)

\* The public iterators the class defines.
RF2SnapshotMethods == {"iter_concepts", "iter_descriptions", "iter_language_refset"}

IsActive_NotZero(row) == row.active # "0"

\* row.get("active", "0") == "1"; an absent value is written NoneValue
IsActive(row) == row.active = "1"

IterRows(file, active_only) ==
    SelectSeq(file, LAMBDA row : ~active_only \/ IsActive(row))

iter_concepts(r, active_only) == IterRows(r.concepts, active_only)
iter_descriptions(r, active_only) == IterRows(r.descriptions, active_only)
iter_language_refset(r, active_only) == IterRows(r.langrefset, active_only)

\* The relationship stream of the Release Reader (spec 4.1); RF2Snapshot has none.
iter_relationships(r, active_only) == IterRows(r.relationships, active_only)

hasattr(r, name) == name \in r.methods

-----------------------------------------------------------------------------
(* subset.load_subset_concept_ids: the id set, or ValueError on a bad line. *)

SeedLineBody(raw) ==
    LET line == Strip(raw)
    IN  IF line = <<>> THEN <<>> ELSE Strip(BeforeHash(line))

SeedLineBad(raw) == SeedLineBody(raw) # <<>> /\ ~IsDigitStr(SeedLineBody(raw))

load_subset_concept_ids_SkipBad(lines) ==
    [error |-> FALSE, line |-> <<>>,
     ids |-> {DigitsToNat(SeedLineBody(lines[i])) :
                i \in {j \in 1..Len(lines) : IsDigitStr(SeedLineBody(lines[j]))}}]

\* The raw line the ValueError names: the first bad one.
SeedErrorLine(lines) ==
    lines[CHOOSE i \in 1..Len(lines) :
              /\ SeedLineBad(lines[i])
              /\ \A j \in 1..(i - 1) : ~SeedLineBad(lines[j])]

load_subset_concept_ids(lines) ==
    IF \E i \in 1..Len(lines) : SeedLineBad(lines[i])
    THEN [error |-> TRUE, ids |-> {}, line |-> SeedErrorLine(lines)]
    ELSE [error |-> FALSE, line |-> <<>>,
          ids |-> {DigitsToNat(SeedLineBody(lines[i])) :
                     i \in {j \in 1..Len(lines) : SeedLineBody(lines[j]) # <<>>}}]

-----------------------------------------------------------------------------
(* subset.build_subset_rows, one loop at a time. *)

DefaultLangRefsets == {EN_US_LANGREFSET, EN_GB_LANGREFSET}

\* lines 70-71; lang is [given |-> FALSE] for None, else [given |-> TRUE, ids |-> S]
EffectiveLangRefsets(lang) == IF lang.given THEN lang.ids ELSE DefaultLangRefsets

\* int(row["active"]) of a row that passed the active filter
ActiveInt(row) == IF row.active = "1" THEN 1 ELSE 0

ConceptTuple(row) == [concept_id |-> row.id, active |-> ActiveInt(row)]

ConceptStream_All(r) == iter_concepts(r, FALSE)

ConceptStream(r) == iter_concepts(r, TRUE)

RECURSIVE ConceptLoop(_, _, _)
ConceptLoop(stream, seeds, acc) ==
    IF stream = <<>> THEN acc
    ELSE LET row == Head(stream)
         IN  ConceptLoop(Tail(stream), seeds,
                 IF row.id \notin seeds THEN acc
                 ELSE [kept |-> acc.kept \cup {row.id},
                       rows |-> Append(acc.rows, ConceptTuple(row))])

DescriptionTuple(row) ==
    [description_id |-> row.id, concept_id |-> row.conceptId,
     active |-> ActiveInt(row), type_id |-> row.typeId, term |-> row.term]

DescriptionWanted_NoConceptCheck(row, kept, prefer) ==
    prefer => row.typeId \in {FSN_TYPE_ID, SYN_TYPE_ID}

\* lines 95-101: the two `continue` filters of the description loop
DescriptionWanted(row, kept, prefer) ==
    /\ row.conceptId \in kept
    /\ prefer => row.typeId \in {FSN_TYPE_ID, SYN_TYPE_ID}

LimitReached_OffByOne(rows, limit) == limit # 0 /\ Len(rows) > limit

LimitReached(rows, limit) == limit # 0 /\ Len(rows) >= limit

RECURSIVE DescriptionLoop(_, _, _, _, _)
DescriptionLoop(stream, kept, prefer, limit, acc) ==
    IF stream = <<>> THEN acc
    ELSE LET row == Head(stream)
             seen == [acc EXCEPT !.read = @ + 1]
         IN  IF ~DescriptionWanted(row, kept, prefer)
             THEN DescriptionLoop(Tail(stream), kept, prefer, limit, seen)
             ELSE LET next == [seen EXCEPT !.ids = @ \cup {row.id},
                                           !.rows = Append(@, DescriptionTuple(row))]
                  IN  IF LimitReached(next.rows, limit) THEN next
                      ELSE DescriptionLoop(Tail(stream), kept, prefer, limit, next)

LangTuple(row) ==
    [langrefset_id |-> row.id, active |-> ActiveInt(row),
     refset_id |-> row.refsetId,
     referenced_component_id |-> row.referencedComponentId]

LangWanted_NoDescCheck(row, descIds, allow) ==
    allow # {} => row.refsetId \in allow

LangWanted_StrictAllowList(row, descIds, allow) ==
    /\ row.referencedComponentId \in descIds
    /\ row.refsetId \in allow

\* lines 126-132; an empty allow-list is falsy and filters nothing
LangWanted(row, descIds, allow) ==
    /\ row.referencedComponentId \in descIds
    /\ allow # {} => row.refsetId \in allow

RECURSIVE LangLoop(_, _, _, _)
LangLoop(stream, descIds, allow, acc) ==
    IF stream = <<>> THEN acc
    ELSE LangLoop(Tail(stream), descIds, allow,
             IF LangWanted(Head(stream), descIds, allow)
             THEN Append(acc, LangTuple(Head(stream))) ELSE acc)

-----------------------------------------------------------------------------
(* sqlite_writer.SQLiteWriter over the output file.  A table is the        *)
(* sequence of its rows; the schema's primary keys are those the class     *)
(* docstring lists, and feature_key for feature_snomed_map.                *)

TableNames == {"concept", "description", "langrefset", "isa_edge",
               "feature_snomed_map", "meta"}

EmptyTables == [t \in TableNames |-> <<>>]

\* The unique key of feature_snomed_map: one row for each token (spec 3).
FeatureMapKey(row) == row.feature_key

KeyOf(t, row) ==
    CASE t = "concept" -> row.concept_id
      [] t = "description" -> row.description_id
      [] t = "langrefset" -> row.langrefset_id
      [] t = "isa_edge" -> <<row.child_concept_id, row.parent_concept_id>>
      [] t = "feature_snomed_map" -> FeatureMapKey(row)
      [] t = "meta" -> row.key

PlainInsert(t, tbl, row) == Append(tbl, row)

InsertOrIgnore(t, tbl, row) ==
    IF \E i \in 1..Len(tbl) : KeyOf(t, tbl[i]) = KeyOf(t, row) THEN tbl
    ELSE Append(tbl, row)

\* INSERT OR REPLACE: the row holding the same key is deleted, then the row is added
InsertOrReplace(t, tbl, row) ==
    Append(SelectSeq(tbl, LAMBDA r : KeyOf(t, r) # KeyOf(t, row)), row)

RECURSIVE executemany(_, _, _)
executemany(t, tbl, rows) ==
    IF rows = <<>> THEN tbl
    ELSE executemany(t, InsertOrReplace(t, tbl, Head(rows)), Tail(rows))

\* The schema script: statements defining the six tables (spec 4.4, 6).  A table
\* the file already holds is left as it is, rows included.
SchemaScript(tables) == tables

ClosedConn == [open |-> FALSE, tables |-> EmptyTables]

Connect_CleanTarget(file) == [open |-> TRUE, tables |-> EmptyTables]

\* __init__: connect, then PRAGMA journal_mode=DELETE
Connect(file) == [open |-> TRUE, tables |-> file.tables]

InsertInto(c, t, rows) ==
    [c EXCEPT !.tables[t] = executemany(t, c.tables[t], rows)]

Commit_Nothing(file, c) == file

\* conn.commit(): the connection's view becomes the file's content
Commit(file, c) == [file EXCEPT !.tables = c.tables]

MetaRows ==
    << [key |-> "subset_name", value |-> "custom_subset"],
       [key |-> "subset_version", value |-> "today"],
       [key |-> "schema_version", value |-> "1.1"],
       [key |-> "rf2_release", value |-> "unknown"] >>

\* Contents of a table, whatever the order of its rows: row -> multiplicity
Contents(tbl) ==
    [r \in Range(tbl) |-> Cardinality({i \in 1..Len(tbl) : tbl[i] = r})]

Keys(t, tbl) == {KeyOf(t, tbl[i]) : i \in 1..Len(tbl)}

-----------------------------------------------------------------------------
(* build.py: helpers of main. *)

IsaEdgeWanted_ParentKept(rel, kept) ==
    rel.typeId = ISA_TYPE_ID /\ rel.sourceId \in kept /\ rel.destinationId \in kept

\* lines 210-218: the type test and the child test of the IS-A loop
IsaEdgeWanted(rel, kept) == rel.typeId = ISA_TYPE_ID /\ rel.sourceId \in kept

RECURSIVE IsaLoop(_, _, _)
IsaLoop(stream, kept, acc) ==
    IF stream = <<>> THEN acc
    ELSE LET rel == Head(stream)
         IN  IsaLoop(Tail(stream), kept,
                 IF IsaEdgeWanted(rel, kept)
                 THEN Append(acc, [child_concept_id |-> rel.sourceId,
                                   parent_concept_id |-> rel.destinationId])
                 ELSE acc)

\* _build_fsn_index: concept id -> stripped term of the last active FSN row
RECURSIVE FsnIndexLoop(_, _)
FsnIndexLoop(stream, idx) ==
    IF stream = <<>> THEN idx
    ELSE LET d == Head(stream)
             term == Strip(d.term)
         IN  FsnIndexLoop(Tail(stream),
                 IF d.typeId = FSN_TYPE_ID /\ d.conceptId # 0 /\ term # <<>>
                 THEN [c \in DOMAIN idx \cup {d.conceptId} |->
                          IF c = d.conceptId THEN term ELSE idx[c]]
                 ELSE idx)

EmptyIndex == [c \in {} |-> <<>>]

_build_fsn_index(r) ==
    IF hasattr(r, "iter_descriptions")
    THEN FsnIndexLoop(iter_descriptions(r, TRUE), EmptyIndex)
    ELSE EmptyIndex

\* fsn_index.get(concept_id, "")
IndexGet(idx, cid) == IF cid \in DOMAIN idx THEN idx[cid] ELSE <<>>

\* What a reader offering get_concept would return: the concept's row, if any.
get_concept(r, cid) ==
    LET hits == {i \in 1..Len(r.concepts) : r.concepts[i].id = cid}
    IN  IF hits = {} THEN [found |-> FALSE, active |-> ""]
        ELSE [found |-> TRUE,
              active |-> r.concepts[CHOOSE i \in hits : \A j \in hits : j <= i].active]

\* What a reader offering concept_active would answer.
concept_active(r, cid) == get_concept(r, cid).found /\ get_concept(r, cid).active = "1"

\* _is_concept_active: "True", "False" or None
_is_concept_active(r, cid) ==
    LET c == get_concept(r, cid)
    IN  IF hasattr(r, "get_concept") /\ c.found /\ c.active \in {"1", "0"}
        THEN (IF c.active = "1" THEN "True" ELSE "False")
        ELSE IF hasattr(r, "concept_active")
        THEN (IF concept_active(r, cid) THEN "True" ELSE "False")
        ELSE NoneValue

Classify_NotFoundWithoutName(rf2_fsn, csv_fsn, active_flag) ==
    LET byName ==
            IF rf2_fsn # <<>> /\ csv_fsn # <<>> /\ Strip(rf2_fsn) # Strip(csv_fsn)
            THEN "fsn_mismatch"
            ELSE IF rf2_fsn = <<>> THEN "fsn_not_found_in_rf2"
            ELSE IF rf2_fsn # <<>> /\ csv_fsn = <<>> THEN "csv_fsn_missing"
            ELSE "ok"
    IN  IF active_flag = "False" THEN "concept_inactive" ELSE byName

Classify_OkWithoutName(rf2_fsn, csv_fsn, active_flag) ==
    LET byName ==
            IF rf2_fsn # <<>> /\ csv_fsn # <<>> /\ Strip(rf2_fsn) # Strip(csv_fsn)
            THEN "fsn_mismatch"
            ELSE IF rf2_fsn = <<>> /\ csv_fsn # <<>> THEN "fsn_not_found_in_rf2"
            ELSE "ok"
    IN  IF active_flag = "False" THEN "concept_inactive" ELSE byName

\* lines 273-284: the status by name agreement, overridden for an inactive concept
Classify(rf2_fsn, csv_fsn, active_flag) ==
    LET byName ==
            IF rf2_fsn # <<>> /\ csv_fsn # <<>> /\ Strip(rf2_fsn) # Strip(csv_fsn)
            THEN "fsn_mismatch"
            ELSE IF rf2_fsn = <<>> /\ csv_fsn # <<>> THEN "fsn_not_found_in_rf2"
            ELSE IF rf2_fsn # <<>> /\ csv_fsn = <<>> THEN "csv_fsn_missing"
            ELSE "ok"
    IN  IF active_flag = "False" THEN "concept_inactive" ELSE byName

RowImported_AnyFlag(r) ==
    /\ Strip(r.token) # <<>>
    /\ Strip(r.snomed_concept_id) # <<>>
    /\ IntParses(Strip(r.snomed_concept_id))

\* lines 246-261: the four `continue` tests of the import loop
RowImported(r) ==
    /\ Strip(r.token) # <<>>
    /\ Upper(Strip(r.map_to_snomed)) \in AffirmativeFlags
    /\ Strip(r.snomed_concept_id) # <<>>
    /\ IntParses(Strip(r.snomed_concept_id))

\* (r.get("notes") or "").strip() or None
NoteOf(r) == IF Strip(r.notes) = <<>> THEN NoneText ELSE Strip(r.notes)

FeatureTuple(r) ==
    [feature_key |-> Strip(r.token),
     concept_id |-> IntOf(Strip(r.snomed_concept_id)),
     active |-> 1,
     note |-> NoteOf(r)]

ReportRow(r, reader, idx) ==
    LET concept_id == IntOf(Strip(r.snomed_concept_id))
        csv_fsn == Strip(r.snomed_fsn)
        rf2_fsn == IndexGet(idx, concept_id)
        active_flag == _is_concept_active(reader, concept_id)
    IN  [token |-> Strip(r.token),
         snomed_concept_id |-> concept_id,
         csv_snomed_fsn |-> csv_fsn,
         rf2_fsn |-> rf2_fsn,
         concept_active |-> IF active_flag = NoneValue THEN <<>>
                            ELSE IF active_flag = "True" THEN <<"1">> ELSE <<"0">>,
         status |-> Classify(rf2_fsn, csv_fsn, active_flag),
         notes |-> IF NoteOf(r) = NoneText THEN <<>> ELSE NoteOf(r)]

RECURSIVE ImportLoop_DropsDiscrepancies(_, _, _, _, _)
ImportLoop_DropsDiscrepancies(rows, validate, reader, idx, acc) ==
    IF rows = <<>> THEN acc
    ELSE LET r == Head(rows)
         IN  ImportLoop_DropsDiscrepancies(Tail(rows), validate, reader, idx,
                 IF ~RowImported(r) THEN acc
                 ELSE IF validate
                 THEN [report |-> Append(acc.report, ReportRow(r, reader, idx)),
                       rows |-> IF ReportRow(r, reader, idx).status = "ok"
                                THEN Append(acc.rows, FeatureTuple(r))
                                ELSE acc.rows]
                 ELSE [report |-> acc.report,
                       rows |-> Append(acc.rows, FeatureTuple(r))])

\* lines 245-298: the loop over the CSV's data rows
RECURSIVE ImportLoop(_, _, _, _, _)
ImportLoop(rows, validate, reader, idx, acc) ==
    IF rows = <<>> THEN acc
    ELSE LET r == Head(rows)
         IN  ImportLoop(Tail(rows), validate, reader, idx,
                 IF ~RowImported(r) THEN acc
                 ELSE [report |-> IF validate
                                  THEN Append(acc.report, ReportRow(r, reader, idx))
                                  ELSE acc.report,
                       rows |-> Append(acc.rows, FeatureTuple(r))])

\* line 315
Mismatches(report) == SelectSeq(report, LAMBDA r : r.status \notin {"ok", ""})

-----------------------------------------------------------------------------
(* build.main, one action per stage. *)

Ended == {"done", "crashed", "exit2", "exit3"}

MainCall == [lang_refset_ids |-> [given |-> FALSE, ids |-> {}],
             prefer_fsn_and_synonyms |-> TRUE,
             limit_descriptions |-> args.limit]

\* The process ends without close(): what the connection had not committed is lost.
ExitWith(state, code) ==
    /\ pc' = state
    /\ exit_code' = code
    /\ conn' = ClosedConn

\* lines 175-177; a ValueError ends the process
LoadSeed ==
    /\ pc = "load_seed"
    /\ LET res == load_subset_concept_ids(seedFile)
       IN  IF res.error
           THEN /\ ExitWith("crashed", "1")
                /\ UNCHANGED <<seed_ids, call>>
           ELSE /\ seed_ids' = res.ids
                /\ call' = MainCall
                /\ pc' = "concepts"
                /\ UNCHANGED <<exit_code, conn>>
    /\ UNCHANGED <<inputVars, subsetVars, isa_edges, mapVars, db, run, prev>>

\* subset.py lines 73-89
KeepConcepts ==
    /\ pc = "concepts"
    /\ LET res == ConceptLoop(ConceptStream(rf2), seed_ids, [kept |-> {}, rows |-> <<>>])
       IN  /\ kept_concepts' = res.kept
           /\ concept_rows' = res.rows
    /\ pc' = "descriptions"
    /\ UNCHANGED <<inputVars, call, seed_ids, kept_desc_ids, description_rows,
                   desc_read, langrefset_rows, isa_edges, mapVars, exit_code,
                   storeVars, run, prev>>

\* subset.py lines 91-120
KeepDescriptions ==
    /\ pc = "descriptions"
    /\ LET res == DescriptionLoop(iter_descriptions(rf2, TRUE), kept_concepts,
                                  call.prefer_fsn_and_synonyms, call.limit_descriptions,
                                  [ids |-> {}, rows |-> <<>>, read |-> 0])
       IN  /\ kept_desc_ids' = res.ids
           /\ description_rows' = res.rows
           /\ desc_read' = res.read
    /\ pc' = "langrefset"
    /\ UNCHANGED <<inputVars, call, seed_ids, kept_concepts, concept_rows,
                   langrefset_rows, isa_edges, mapVars, exit_code, storeVars,
                   run, prev>>

\* subset.py lines 122-154
KeepLangrefset ==
    /\ pc = "langrefset"
    /\ langrefset_rows' = LangLoop(iter_language_refset(rf2, TRUE), kept_desc_ids,
                                   EffectiveLangRefsets(call.lang_refset_ids), <<>>)
    /\ pc' = "subset_done"
    /\ UNCHANGED <<inputVars, call, seed_ids, kept_concepts, concept_rows,
                   kept_desc_ids, description_rows, desc_read, isa_edges, mapVars,
                   exit_code, storeVars, run, prev>>

\* build.py line 191
OpenWriter ==
    /\ pc = "subset_done"
    /\ conn' = Connect(db)
    /\ db' = [db EXCEPT !.journal_mode = "delete"]
    /\ pc' = "init_schema"
    /\ UNCHANGED <<inputVars, call, seed_ids, subsetVars, isa_edges, mapVars,
                   exit_code, run, prev>>

\* build.py line 192; the schema script creates the tables that are missing
InitSchema ==
    /\ pc = "init_schema"
    /\ conn' = [conn EXCEPT !.tables = SchemaScript(@)]
    /\ db' = [Commit(db, conn') EXCEPT !.schema = TRUE]
    /\ pc' = "insert_concepts"
    /\ UNCHANGED <<inputVars, call, seed_ids, subsetVars, isa_edges, mapVars,
                   exit_code, run, prev>>

InsertConcepts_Autocommit ==
    /\ pc = "insert_concepts"
    /\ conn' = InsertInto(conn, "concept", concept_rows)
    /\ db' = Commit(db, conn')
    /\ pc' = "insert_descriptions"
    /\ UNCHANGED <<inputVars, call, seed_ids, subsetVars, isa_edges, mapVars,
                   exit_code, run, prev>>

\* build.py line 194
InsertConcepts ==
    /\ pc = "insert_concepts"
    /\ conn' = InsertInto(conn, "concept", concept_rows)
    /\ pc' = "insert_descriptions"
    /\ UNCHANGED <<inputVars, call, seed_ids, subsetVars, isa_edges, mapVars,
                   exit_code, db, run, prev>>

\* build.py line 195
InsertDescriptions ==
    /\ pc = "insert_descriptions"
    /\ conn' = InsertInto(conn, "description", description_rows)
    /\ pc' = "insert_langrefset"
    /\ UNCHANGED <<inputVars, call, seed_ids, subsetVars, isa_edges, mapVars,
                   exit_code, db, run, prev>>

\* build.py line 196
InsertLangrefset ==
    /\ pc = "insert_langrefset"
    /\ conn' = InsertInto(conn, "langrefset", langrefset_rows)
    /\ pc' = "isa"
    /\ UNCHANGED <<inputVars, call, seed_ids, subsetVars, isa_edges, mapVars,
                   exit_code, db, run, prev>>

\* build.py lines 205-221; a reader without iter_relationships raises AttributeError
ExtractIsaEdges ==
    /\ pc = "isa"
    /\ IF ~hasattr(rf2, "iter_relationships")
       THEN /\ ExitWith("crashed", "1")
            /\ UNCHANGED isa_edges
       ELSE /\ isa_edges' = IsaLoop(iter_relationships(rf2, TRUE),
                                    {concept_rows[i].concept_id : i \in 1..Len(concept_rows)},
                                    <<>>)
            /\ pc' = "insert_isa"
            /\ UNCHANGED <<exit_code, conn>>
    /\ UNCHANGED <<inputVars, call, seed_ids, subsetVars, mapVars, db, run, prev>>

\* build.py line 222
InsertIsaEdges ==
    /\ pc = "insert_isa"
    /\ conn' = InsertInto(conn, "isa_edge", isa_edges)
    /\ pc' = "feature_map"
    /\ UNCHANGED <<inputVars, call, seed_ids, subsetVars, isa_edges, mapVars,
                   exit_code, db, run, prev>>

\* build.py lines 227-300
LoadFeatureMap ==
    /\ pc = "feature_map"
    /\ IF ~args.feature_map
       THEN /\ pc' = "write_meta"
            /\ UNCHANGED <<fsn_index, report_rows, feature_map_rows>>
       ELSE LET idx == IF args.validate_feature_map
                       THEN _build_fsn_index(rf2) ELSE EmptyIndex
                res == ImportLoop(mapFile, args.validate_feature_map, rf2, idx,
                                  [report |-> <<>>, rows |-> <<>>])
            IN  /\ fsn_index' = idx
                /\ report_rows' = res.report
                /\ feature_map_rows' = res.rows
                /\ pc' = "check_rows"
    /\ UNCHANGED <<inputVars, call, seed_ids, subsetVars, isa_edges, reportFile,
                   exit_code, storeVars, run, prev>>

\* build.py lines 302-311
CheckRows ==
    /\ pc = "check_rows"
    /\ IF Len(feature_map_rows) = 0
       THEN ExitWith("exit2", "2")
       ELSE /\ pc' = IF args.validate_feature_map THEN "report" ELSE "insert_map"
            /\ UNCHANGED <<exit_code, conn>>
    /\ UNCHANGED <<inputVars, call, seed_ids, subsetVars, isa_edges, mapVars,
                   db, run, prev>>

WriteReport_OnlyOnPass ==
    /\ pc = "report"
    /\ IF args.fail_on_feature_map_mismatch /\ Mismatches(report_rows) # <<>>
       THEN /\ ExitWith("exit3", "3")
            /\ UNCHANGED reportFile
       ELSE /\ reportFile' = [written |-> TRUE, rows |-> report_rows]
            /\ pc' = "insert_map"
            /\ UNCHANGED <<exit_code, conn>>
    /\ UNCHANGED <<inputVars, call, seed_ids, subsetVars, isa_edges, fsn_index,
                   report_rows, feature_map_rows, db, run, prev>>

\* build.py lines 311-321
WriteReport ==
    /\ pc = "report"
    /\ reportFile' = [written |-> TRUE, rows |-> report_rows]
    /\ IF args.fail_on_feature_map_mismatch /\ Mismatches(report_rows) # <<>>
       THEN ExitWith("exit3", "3")
       ELSE /\ pc' = "insert_map"
            /\ UNCHANGED <<exit_code, conn>>
    /\ UNCHANGED <<inputVars, call, seed_ids, subsetVars, isa_edges, fsn_index,
                   report_rows, feature_map_rows, db, run, prev>>

\* build.py line 323
InsertFeatureMap ==
    /\ pc = "insert_map"
    /\ conn' = InsertInto(conn, "feature_snomed_map", feature_map_rows)
    /\ pc' = "write_meta"
    /\ UNCHANGED <<inputVars, call, seed_ids, subsetVars, isa_edges, mapVars,
                   exit_code, db, run, prev>>

\* build.py lines 325-332, sqlite_writer.py lines 41-50
WriteMeta ==
    /\ pc = "write_meta"
    /\ conn' = InsertInto(conn, "meta", MetaRows)
    /\ db' = Commit(db, conn')
    /\ pc' = "finalize"
    /\ UNCHANGED <<inputVars, call, seed_ids, subsetVars, isa_edges, mapVars,
                   exit_code, run, prev>>

\* build.py line 334, sqlite_writer.py lines 148-167
Finalize ==
    /\ pc = "finalize"
    /\ db' = [Commit(db, conn) EXCEPT !.journal_mode = "delete"]
    /\ pc' = "close"
    /\ UNCHANGED <<inputVars, call, seed_ids, subsetVars, isa_edges, mapVars,
                   exit_code, conn, run, prev>>

\* build.py lines 335-338
Close ==
    /\ pc = "close"
    /\ conn' = ClosedConn
    /\ pc' = "done"
    /\ exit_code' = "0"
    /\ UNCHANGED <<inputVars, call, seed_ids, subsetVars, isa_edges, mapVars,
                   db, run, prev>>

KeptCounts == [concepts |-> Len(concept_rows),
               descriptions |-> Len(description_rows),
               langrefset |-> Len(langrefset_rows),
               isa_edges |-> Len(isa_edges),
               feature_map |-> Len(feature_map_rows)]

NoPrev == [counts |-> [concepts |-> 0, descriptions |-> 0, langrefset |-> 0,
                       isa_edges |-> 0, feature_map |-> 0],
           tables |-> EmptyTables, exit_code |-> Running]

\* The operator runs the same command again: a new process, the same inputs,
\* the same output file.
Rerun ==
    /\ pc \in Ended
    /\ run < plan
    /\ run' = run + 1
    /\ prev' = [counts |-> KeptCounts, tables |-> db.tables, exit_code |-> exit_code]
    /\ pc' = "load_seed"
    /\ exit_code' = Running
    /\ seed_ids' = {}
    /\ kept_concepts' = {}
    /\ concept_rows' = <<>>
    /\ kept_desc_ids' = {}
    /\ description_rows' = <<>>
    /\ desc_read' = 0
    /\ langrefset_rows' = <<>>
    /\ isa_edges' = <<>>
    /\ fsn_index' = EmptyIndex
    /\ report_rows' = <<>>
    /\ feature_map_rows' = <<>>
    /\ UNCHANGED <<inputVars, call, reportFile, storeVars>>

-----------------------------------------------------------------------------
(* Inputs.  Concept ids 1 and 2 are in the release; 9 is in no release.     *)

ConceptIds == {1, 2}
ActiveVals == {"1", "0"}
OTHER_TYPE_ID == "900000000000550004"      \* a definition, neither FSN nor synonym
OTHER_REFSET == "900000000000999000"       \* a refset that is no English one
OTHER_REL_TYPE == "363698007"              \* a relationship that is not IS-A

ReaderWithRelationships == RF2SnapshotMethods \cup {"iter_relationships"}

\* the concept file listing concepts 1..Len(flags) with these active flags
ConceptFile(flags) == [i \in DOMAIN flags |-> [id |-> i, active |-> flags[i]]]

DescVals == [conceptId : ConceptIds,
             typeId : {FSN_TYPE_ID, SYN_TYPE_ID, OTHER_TYPE_ID},
             active : ActiveVals]

DescFile(f) ==
    [i \in DOMAIN f |-> [id |-> 10 + i, conceptId |-> f[i].conceptId,
                         typeId |-> f[i].typeId, active |-> f[i].active,
                         term |-> <<"a">>]]

LangVals(refs) == [referencedComponentId : refs,
                   refsetId : {EN_US_LANGREFSET, EN_GB_LANGREFSET, OTHER_REFSET},
                   active : ActiveVals]

LangFile(f) ==
    [i \in DOMAIN f |-> [id |-> 20 + i, refsetId |-> f[i].refsetId,
                         referencedComponentId |-> f[i].referencedComponentId,
                         active |-> f[i].active]]

\* one active en-US row for each description position
LangForAll(n) ==
    [i \in 1..n |-> [id |-> 20 + i, refsetId |-> EN_US_LANGREFSET,
                     referencedComponentId |-> 10 + i, active |-> "1"]]

RelVals == [typeId : {ISA_TYPE_ID, OTHER_REL_TYPE}, sourceId : ConceptIds,
            destinationId : {2, 9}, active : ActiveVals]

\* The release of the spec's example: Fever (1) and Cough (2), each with an
\* active FSN; concept 2 may be marked inactive.
BaseDescriptions ==
    << [id |-> 11, conceptId |-> 1, typeId |-> FSN_TYPE_ID, active |-> "1",
        term |-> <<"a">>],
       [id |-> 12, conceptId |-> 1, typeId |-> SYN_TYPE_ID, active |-> "1",
        term |-> <<"c">>],
       [id |-> 13, conceptId |-> 2, typeId |-> FSN_TYPE_ID, active |-> "1",
        term |-> <<"b", " ">>] >>

BaseRelationships ==
    << [typeId |-> ISA_TYPE_ID, sourceId |-> 1, destinationId |-> 9,
        active |-> "1"] >>

SeedFiles ==
    { << <<"1">>, <<"2">> >>,
      << <<"1", " ", "#", "x">>, <<>>, <<"#", "2">> >>,
      << <<" ", "2">> >>,
      << <<"1">>, <<"2", "x">> >>,
      << <<"#">>, <<"x", " ", "#", "1">>, <<"y">> >> }

GoodSeedFile == << <<"1">>, <<"2">> >>

MapRow(token, flag, cid, fsn, notes) ==
    [token |-> token, map_to_snomed |-> flag, snomed_concept_id |-> cid,
     snomed_fsn |-> fsn, notes |-> notes]

FirstMapRows ==
    {MapRow(t, f, c, n, <<>>) :
        t \in {<<"t">>, <<" ">>},
        f \in {<<"T", "R", "U", "E">>, <<" ", "y">>, <<"n", "o">>},
        c \in {<<"1">>, <<"2", " ">>, <<"9">>, <<"x">>},
        n \in {<<>>, <<"a">>, <<"a", " ">>, <<"b">>}}

MoreMapRows ==
    { MapRow(<<"t">>, <<"1">>, <<"2">>, <<>>, <<"n">>),
      MapRow(<<"u">>, <<"y", "e", "s">>, <<"1">>, <<"b">>, <<>>),
      MapRow(<<"u">>, <<"F", "A", "L", "S", "E">>, <<"1">>, <<>>, <<>>),
      MapRow(<<"u">>, <<"T", "R", "U", "E">>, <<>>, <<>>, <<>>) }

MapFiles ==
    {<<>>} \cup
    UNION {{<<first>> \o rest : first \in FirstMapRows,
                                rest \in [1..k -> MoreMapRows]} :
             k \in 0..(MaxMapRows - 1)}

UnusableMapFile == << MapRow(<<"t">>, <<"n", "o">>, <<"1">>, <<>>, <<>>) >>

NoArgs == [limit |-> 0, feature_map |-> FALSE, validate_feature_map |-> FALSE,
           fail_on_feature_map_mismatch |-> FALSE]

FreshFile == [schema |-> FALSE, tables |-> EmptyTables, journal_mode |-> "delete"]

\* What a build seeded with concept 2 alone left in the output file.
PriorBuildFile ==
    [schema |-> TRUE,
     tables |-> [EmptyTables EXCEPT
         !.concept = << [concept_id |-> 2, active |-> 1] >>,
         !.description = << [description_id |-> 13, concept_id |-> 2, active |-> 1,
                             type_id |-> FSN_TYPE_ID, term |-> <<"b", " ">>] >>,
         !.langrefset = << [langrefset_id |-> 23, active |-> 1,
                            refset_id |-> EN_US_LANGREFSET,
                            referenced_component_id |-> 13] >>,
         !.feature_snomed_map = << [feature_key |-> <<"v">>, concept_id |-> 2,
                                    active |-> 1, note |-> NoneText] >>,
         !.meta = MetaRows],
     journal_mode |-> "delete"]

\* The same file left in write-ahead-log mode by another tool.
WalFile == [PriorBuildFile EXCEPT !.journal_mode = "wal"]

InitialFiles == {FreshFile, PriorBuildFile, WalFile}

\* Nothing has run yet.
InitLocals ==
    /\ seed_ids = {}
    /\ kept_concepts = {}
    /\ concept_rows = <<>>
    /\ kept_desc_ids = {}
    /\ description_rows = <<>>
    /\ desc_read = 0
    /\ langrefset_rows = <<>>
    /\ isa_edges = <<>>
    /\ fsn_index = EmptyIndex
    /\ report_rows = <<>>
    /\ feature_map_rows = <<>>
    /\ reportFile = NoReport
    /\ exit_code = Running
    /\ conn = ClosedConn
    /\ run = 1
    /\ prev = NoPrev

\* Releases, seed files and relationship files; no mapping file or an unusable one.
InitReleases ==
    /\ \E a2 \in ActiveVals, k \in 0..MaxRels, m \in {RF2SnapshotMethods,
                                                      ReaderWithRelationships} :
         \E f \in [1..k -> RelVals] :
           rf2 = [concepts |-> ConceptFile(<<"1", a2>>),
                  descriptions |-> BaseDescriptions,
                  langrefset |-> LangForAll(3),
                  relationships |-> f,
                  methods |-> m]
    /\ seedFile \in SeedFiles
    /\ \E fm \in BOOLEAN, lim \in 0..MaxLimit :
         /\ args = [NoArgs EXCEPT !.feature_map = fm, !.limit = lim]
         /\ mapFile = IF fm THEN UnusableMapFile ELSE <<>>
    /\ plan = 1
    /\ db = FreshFile

\* Mapping files and validation options over the example release.
InitMappings ==
    /\ \E a2 \in ActiveVals :
           rf2 = [concepts |-> ConceptFile(<<"1", a2>>),
                  descriptions |-> BaseDescriptions,
                  langrefset |-> LangForAll(3),
                  relationships |-> BaseRelationships,
                  methods |-> ReaderWithRelationships]
    /\ seedFile = GoodSeedFile
    /\ \E v \in BOOLEAN, e \in BOOLEAN :
         args = [NoArgs EXCEPT !.feature_map = TRUE, !.validate_feature_map = v,
                               !.fail_on_feature_map_mismatch = e]
    /\ mapFile \in MapFiles
    /\ plan = 1
    /\ db = FreshFile

\* The same build run again and again against one output file.
InitReruns ==
    /\ \E a2 \in ActiveVals, m \in {RF2SnapshotMethods, ReaderWithRelationships} :
           rf2 = [concepts |-> ConceptFile(<<"1", a2>>),
                  descriptions |-> BaseDescriptions,
                  langrefset |-> LangForAll(3),
                  relationships |-> BaseRelationships,
                  methods |-> m]
    /\ seedFile \in SeedFiles
    /\ \E fm \in BOOLEAN, v \in BOOLEAN, e \in BOOLEAN, lim \in 0..MaxLimit :
         /\ args = [NoArgs EXCEPT !.feature_map = fm, !.validate_feature_map = v,
                                  !.fail_on_feature_map_mismatch = e,
                                  !.limit = lim]
         /\ mapFile = IF fm
                      THEN << MapRow(<<"t">>, <<"1">>, <<"1">>, <<>>, <<>>),
                              MapRow(<<"t">>, <<"Y">>, <<"2">>, <<>>, <<"n">>) >>
                      ELSE <<>>
    /\ plan = MaxRuns
    /\ db \in InitialFiles

\* What the active column of a release row may hold: the two flags, another
\* text, or nothing at all.
AnyActiveVals == {"1", "0", "true", NoneValue}

\* The example release with one more row in each file, whose active column
\* holds any value; concept 2 is mapped under validation.
InitActiveFlags ==
    /\ \E fc \in AnyActiveVals, fd \in AnyActiveVals, fl \in AnyActiveVals,
          fr \in AnyActiveVals :
           rf2 = [concepts |-> ConceptFile(<<"1", fc>>),
                  descriptions |-> BaseDescriptions \o
                      << [id |-> 14, conceptId |-> 2, typeId |-> FSN_TYPE_ID,
                          active |-> fd, term |-> <<"z">>] >>,
                  langrefset |-> LangForAll(3) \o
                      << [id |-> 24, refsetId |-> EN_GB_LANGREFSET,
                          referencedComponentId |-> 11, active |-> fl] >>,
                  relationships |-> BaseRelationships \o
                      << [typeId |-> ISA_TYPE_ID, sourceId |-> 1,
                          destinationId |-> 2, active |-> fr] >>,
                  methods |-> ReaderWithRelationships]
    /\ seedFile = GoodSeedFile
    /\ args = [NoArgs EXCEPT !.feature_map = TRUE, !.validate_feature_map = TRUE]
    /\ mapFile = << MapRow(<<"t">>, <<"Y">>, <<"2">>, <<"z">>, <<>>) >>
    /\ plan = 1
    /\ db = FreshFile

Init ==
    /\ pc = "load_seed"
    /\ InitLocals
    /\ (InitReleases \/ InitMappings \/ InitReruns \/ InitActiveFlags)
    /\ call = MainCall

Next ==
    \/ LoadSeed
    \/ KeepConcepts
    \/ KeepDescriptions
    \/ KeepLangrefset
    \/ OpenWriter
    \/ InitSchema
    \/ InsertConcepts
    \/ InsertDescriptions
    \/ InsertLangrefset
    \/ ExtractIsaEdges
    \/ InsertIsaEdges
    \/ LoadFeatureMap
    \/ CheckRows
    \/ WriteReport
    \/ InsertFeatureMap
    \/ WriteMeta
    \/ Finalize
    \/ Close
    \/ Rerun

Spec == Init /\ [][Next]_vars

-----------------------------------------------------------------------------
(* build_subset_rows called on its own: every keyword argument is drawn. *)

LangChoices == { [given |-> FALSE, ids |-> {}],
                 [given |-> TRUE, ids |-> {}],
                 [given |-> TRUE, ids |-> {EN_US_LANGREFSET}],
                 [given |-> TRUE, ids |-> {OTHER_REFSET}] }

\* Concepts, seeds, descriptions and caps; every description has a language row.
InitClosure ==
    /\ \E a1 \in ActiveVals, a2 \in ActiveVals, k \in 0..MaxDescs :
         \E f \in [1..k -> DescVals] :
           rf2 = [concepts |-> ConceptFile(<<a1, a2>>),
                  descriptions |-> DescFile(f),
                  langrefset |-> LangForAll(MaxDescs),
                  relationships |-> <<>>,
                  methods |-> RF2SnapshotMethods]
    /\ seed_ids \in SUBSET ConceptIds
    /\ \E p \in BOOLEAN, lim \in 0..MaxLimit :
         call = [lang_refset_ids |-> [given |-> FALSE, ids |-> {}],
                 prefer_fsn_and_synonyms |-> p, limit_descriptions |-> lim]

\* Language rows and allow-lists over descriptions that are all eligible.
InitLanguage ==
    /\ \E k \in 0..MaxLang :
         \E f \in [1..k -> LangVals(11..(11 + MaxDescs))] :
           rf2 = [concepts |-> ConceptFile(<<"1", "1">>),
                  descriptions |-> DescFile([i \in 1..MaxDescs |->
                                      [conceptId |-> 1, typeId |-> FSN_TYPE_ID,
                                       active |-> "1"]]),
                  langrefset |-> LangFile(f),
                  relationships |-> <<>>,
                  methods |-> RF2SnapshotMethods]
    /\ seed_ids = ConceptIds
    /\ \E l \in LangChoices, lim \in 0..MaxLimit :
         call = [lang_refset_ids |-> l, prefer_fsn_and_synonyms |-> TRUE,
                 limit_descriptions |-> lim]

\* Three concepts with every mix of active flags, and seeds that may name
\* a concept the release does not hold.
InitConcepts ==
    /\ \E flags \in [1..3 -> ActiveVals] :
           rf2 = [concepts |-> ConceptFile(flags),
                  descriptions |-> BaseDescriptions,
                  langrefset |-> LangForAll(3),
                  relationships |-> <<>>,
                  methods |-> RF2SnapshotMethods]
    /\ seed_ids \in SUBSET {1, 2, 3, 9}
    /\ call = [lang_refset_ids |-> [given |-> FALSE, ids |-> {}],
               prefer_fsn_and_synonyms |-> TRUE, limit_descriptions |-> 0]

InitSubset ==
    /\ pc = "concepts"
    /\ seedFile = <<>>
    /\ args = NoArgs
    /\ mapFile = <<>>
    /\ plan = 1
    /\ kept_concepts = {}
    /\ concept_rows = <<>>
    /\ kept_desc_ids = {}
    /\ description_rows = <<>>
    /\ desc_read = 0
    /\ langrefset_rows = <<>>
    /\ isa_edges = <<>>
    /\ fsn_index = EmptyIndex
    /\ report_rows = <<>>
    /\ feature_map_rows = <<>>
    /\ reportFile = NoReport
    /\ exit_code = Running
    /\ conn = ClosedConn
    /\ db = FreshFile
    /\ run = 1
    /\ prev = NoPrev
    /\ (InitClosure \/ InitLanguage \/ InitConcepts)

NextSubset ==
    \/ KeepConcepts
    \/ KeepDescriptions
    \/ KeepLangrefset

SpecSubset == InitSubset /\ [][NextSubset]_vars
-----------------------------------------------------------------------------
(* Properties of build_subset_rows. *)

ConceptRowIds == {concept_rows[i].concept_id : i \in 1..Len(concept_rows)}
DescriptionRowIds == {description_rows[i].description_id : i \in 1..Len(description_rows)}

\* A description the extractor would keep if no cap were set.
Eligible(d) ==
    /\ d.active = "1"
    /\ d.conceptId \in kept_concepts
    /\ call.prefer_fsn_and_synonyms => d.typeId \in {FSN_TYPE_ID, SYN_TYPE_ID}

EligibleDescriptions == SelectSeq(rf2.descriptions, Eligible)

\* C1: every description row that build_subset_rows returns carries the id of a
\* concept row returned by the same call, whatever the release, the seeds and the
\* cap, also when the cap stops the stream early.
C1_DescriptionsReferToKeptConcepts ==
    \A i \in 1..Len(description_rows) :
        description_rows[i].concept_id \in ConceptRowIds

\* The cap stopped the description stream early, rows were kept, and the release
\* holds an active description of a concept that was not kept.
C1_Witness ==
    /\ pc = "subset_done"
    /\ call.limit_descriptions > 0
    /\ Len(description_rows) = call.limit_descriptions
    /\ desc_read < Len(iter_descriptions(rf2, TRUE))
    /\ \E i \in 1..Len(rf2.descriptions) :
          /\ rf2.descriptions[i].active = "1"
          /\ rf2.descriptions[i].conceptId \notin ConceptRowIds

\* C2: every language row that build_subset_rows returns references a description
\* row returned by the same call, never one that was eligible but cut off by the cap.
C2_LangRowsReferToKeptDescriptions ==
    \A i \in 1..Len(langrefset_rows) :
        langrefset_rows[i].referenced_component_id \in DescriptionRowIds

\* A language row was kept while another active row of an accepted refset points
\* at an eligible description that the cap cut off.
C2_Witness ==
    /\ pc = "subset_done"
    /\ Len(langrefset_rows) > 0
    /\ \E i \in 1..Len(rf2.langrefset), j \in 1..Len(EligibleDescriptions) :
          /\ rf2.langrefset[i].active = "1"
          /\ rf2.langrefset[i].refsetId \in EffectiveLangRefsets(call.lang_refset_ids)
          /\ rf2.langrefset[i].referencedComponentId = EligibleDescriptions[j].id
          /\ EligibleDescriptions[j].id \notin DescriptionRowIds

ActiveConceptIdsOfRelease ==
    {rf2.concepts[i].id : i \in {j \in 1..Len(rf2.concepts) : rf2.concepts[j].active = "1"}}

\* C4: once the concept loop is over, the kept concept ids are exactly the seed ids
\* carried by a concept row of the release whose active flag is "1", and the
\* concept rows returned are the rows of exactly those ids.
C4_KeptConceptsAreActiveSeeds ==
    pc \in {"descriptions", "langrefset", "subset_done"} =>
        /\ kept_concepts = seed_ids \cap ActiveConceptIdsOfRelease
        /\ ConceptRowIds = kept_concepts

\* A seed concept is inactive, an active concept is no seed, and a concept is kept.
C4_Witness ==
    /\ pc = "subset_done"
    /\ kept_concepts # {}
    /\ seed_ids \ ActiveConceptIdsOfRelease # {}
    /\ ActiveConceptIdsOfRelease \ seed_ids # {}
-----------------------------------------------------------------------------
(* Properties of build.main. *)

\* The positions of main after the IS-A loop has run to its end.
AfterIsaLoop == {"insert_isa", "feature_map", "check_rows", "report", "insert_map",
                 "write_meta", "finalize", "close", "done", "exit2", "exit3"}

EdgeOf(rel) == [child_concept_id |-> rel.sourceId,
                parent_concept_id |-> rel.destinationId]

ActiveIsaRows ==
    SelectSeq(rf2.relationships,
              LAMBDA rel : rel.active = "1" /\ rel.typeId = ISA_TYPE_ID)

\* C3: every IS-A edge main collects for insert_isa_edges is the (child, parent)
\* pair of an active relationship row of type 116680003 whose child is a kept
\* concept; and once the loop is over every such row with a kept child has its
\* edge collected, whether or not its parent is a kept concept.
C3_IsaEdgesHaveKeptChild ==
    /\ \A i \in 1..Len(isa_edges) :
          /\ isa_edges[i].child_concept_id \in ConceptRowIds
          /\ \E j \in 1..Len(ActiveIsaRows) : EdgeOf(ActiveIsaRows[j]) = isa_edges[i]
    /\ pc \in AfterIsaLoop =>
          \A j \in 1..Len(ActiveIsaRows) :
              ActiveIsaRows[j].sourceId \in ConceptRowIds =>
                  EdgeOf(ActiveIsaRows[j]) \in Range(isa_edges)

\* insert_isa_edges has received an edge whose parent is not a kept concept.
C3_Witness ==
    /\ pc = "feature_map"
    /\ \E i \in 1..Len(isa_edges) :
          /\ isa_edges[i].parent_concept_id \notin ConceptRowIds
          /\ isa_edges[i] \in Range(conn.tables["isa_edge"])

\* C5: when the same build is run again against the same output file with the
\* same inputs, the later run ends as the earlier one did, with the same kept-row
\* counts, and leaves every table with the contents the earlier run left.
C5_RerunIsIdempotent ==
    (run > 1 /\ pc \in Ended) =>
        /\ exit_code = prev.exit_code
        /\ KeptCounts = prev.counts
        /\ \A t \in TableNames : Contents(db.tables[t]) = Contents(prev.tables[t])

\* Two complete builds in a row, each storing concepts and feature mappings.
C5_Witness ==
    /\ run = 2
    /\ pc = "done"
    /\ prev.exit_code = "0"
    /\ db.tables["concept"] # <<>>
    /\ db.tables["description"] # <<>>
    /\ db.tables["isa_edge"] # <<>>
    /\ db.tables["feature_snomed_map"] # <<>>

SeedFileWellFormed == ~load_subset_concept_ids(seedFile).error

\* The rows of the mapping file that have a non-empty token, an affirmative flag
\* and an integer concept id.
UsableRows ==
    SelectSeq(mapFile, LAMBDA r :
        /\ Strip(r.token) # <<>>
        /\ Upper(Strip(r.map_to_snomed)) \in AffirmativeFlags
        /\ IntParses(Strip(r.snomed_concept_id)))

\* C6: a build that is given a mapping file none of whose rows is usable ends with
\* exit code 2, whatever the validation and escalation options are and although the
\* file holds rows; a build given no mapping file never ends with exit code 2.
\* (Builds whose seed file is malformed are set aside: they fail earlier by design.)
C6_ZeroImportsExitTwo ==
    /\ (pc \in Ended /\ SeedFileWellFormed /\ args.feature_map /\ UsableRows = <<>>)
          => exit_code = "2"
    /\ ~args.feature_map => exit_code # "2"

\* The authoritative name of a concept: the stripped term of the last active
\* fully-specified-name description of the release that has one.
NamedBy(cid) ==
    {i \in 1..Len(rf2.descriptions) :
        /\ rf2.descriptions[i].active = "1"
        /\ rf2.descriptions[i].typeId = FSN_TYPE_ID
        /\ rf2.descriptions[i].conceptId = cid
        /\ Strip(rf2.descriptions[i].term) # <<>>}

AuthoritativeName(cid) ==
    IF NamedBy(cid) = {} THEN <<>>
    ELSE Strip(rf2.descriptions[CHOOSE i \in NamedBy(cid) :
                                   \A j \in NamedBy(cid) : j <= i].term)

MarkedInactive(cid) ==
    \E i \in 1..Len(rf2.concepts) :
        rf2.concepts[i].id = cid /\ rf2.concepts[i].active = "0"

MarkedActive(cid) ==
    \E i \in 1..Len(rf2.concepts) :
        rf2.concepts[i].id = cid /\ rf2.concepts[i].active = "1"

\* C7: under validation, a mapping whose concept the release marks inactive is
\* reported concept_inactive, whatever its expected name.
C7_InactiveConceptIsReported ==
    \A i \in 1..Len(report_rows) :
        MarkedInactive(report_rows[i].snomed_concept_id)
            => report_rows[i].status = "concept_inactive"

\* C8 as stated: under validation, a mapping without an expected name whose
\* concept is active and has an active fully-specified name is reported ok.
C8_NoExpectedNameIsOk ==
    \A i \in 1..Len(report_rows) :
        (/\ report_rows[i].csv_snomed_fsn = <<>>
         /\ MarkedActive(report_rows[i].snomed_concept_id)
         /\ NamedBy(report_rows[i].snomed_concept_id) # {})
            => report_rows[i].status = "ok"

\* C8 as amended: under validation, a mapping without an expected name whose
\* concept is active and has an active fully-specified name is reported
\* csv_fsn_missing; a mapping without an expected name is reported ok only when
\* the release has no active fully-specified name for its concept.
C8_NoExpectedNameIsCsvFsnMissing ==
    \A i \in 1..Len(report_rows) :
        report_rows[i].csv_snomed_fsn = <<>> =>
            /\ (/\ MarkedActive(report_rows[i].snomed_concept_id)
                /\ NamedBy(report_rows[i].snomed_concept_id) # {})
                  => report_rows[i].status = "csv_fsn_missing"
            /\ report_rows[i].status = "ok"
                  => NamedBy(report_rows[i].snomed_concept_id) = {}

\* The report holds a mapping of the active, named concept 1 without expected name.
C8_Witness ==
    \E i \in 1..Len(report_rows) :
        /\ report_rows[i].csv_snomed_fsn = <<>>
        /\ report_rows[i].snomed_concept_id = 1
        /\ MarkedActive(1)
        /\ AuthoritativeName(1) = <<"a">>

Statuses == {"ok", "fsn_mismatch", "fsn_not_found_in_rf2", "csv_fsn_missing",
             "concept_inactive"}

\* C9: under validation the report holds one row for each usable row of the
\* mapping file, in order, each with one of the five statuses; unless the concept
\* is known to be inactive, the status is fsn_mismatch exactly when an
\* authoritative and an expected name both exist and differ after trimming, and
\* fsn_not_found_in_rf2 exactly when an expected name is given and the release
\* has no authoritative name for the id.
C9_StatusFollowsNames ==
    (args.validate_feature_map /\ pc \in {"check_rows", "report", "insert_map"}) =>
        /\ Len(report_rows) = Len(UsableRows)
        /\ \A i \in 1..Len(report_rows) :
              LET cid == IntOf(Strip(UsableRows[i].snomed_concept_id))
                  expected == Strip(UsableRows[i].snomed_fsn)
                  name == AuthoritativeName(cid)
                  status == report_rows[i].status
              IN  /\ status \in Statuses
                  /\ report_rows[i].concept_active # <<"0">> =>
                        /\ status = "fsn_mismatch" <=>
                              (name # <<>> /\ expected # <<>> /\ name # expected)
                        /\ status = "fsn_not_found_in_rf2" <=>
                              (expected # <<>> /\ name = <<>>)

\* One report holds a mapping to concept 9, which the release does not hold,
\* reported fsn_not_found_in_rf2, and a mapping reported fsn_mismatch.
C9_Witness ==
    /\ \E i \in 1..Len(report_rows) :
          /\ report_rows[i].snomed_concept_id = 9
          /\ report_rows[i].status = "fsn_not_found_in_rf2"
    /\ \E i \in 1..Len(report_rows) : report_rows[i].status = "fsn_mismatch"

\* Some usable row of the mapping file classifies as something other than ok.
SomeMismatch ==
    \E i \in 1..Len(UsableRows) :
        LET cid == IntOf(Strip(UsableRows[i].snomed_concept_id))
        IN  Classify(AuthoritativeName(cid), Strip(UsableRows[i].snomed_fsn),
                     _is_concept_active(rf2, cid)) # "ok"

EscalationApplies ==
    args.validate_feature_map /\ args.fail_on_feature_map_mismatch /\ SomeMismatch

\* C10: a build with a well-formed seed file and at least one usable mapping row
\* ends with exit code 3 exactly when validation is on, escalation is requested
\* and some mapping is not ok; in every other case it goes on to insert the
\* imported mappings and completes.
C10_ExitThreeIffEscalated ==
    (pc \in Ended /\ SeedFileWellFormed /\ args.feature_map /\ UsableRows # <<>>) =>
        /\ exit_code = "3" <=> EscalationApplies
        /\ ~EscalationApplies =>
              /\ pc = "done"
              /\ {Strip(UsableRows[i].token) : i \in 1..Len(UsableRows)}
                    \subseteq Keys("feature_snomed_map", db.tables["feature_snomed_map"])

-----------------------------------------------------------------------------
(* Properties of the validation report and of the import loop. *)

\* The build got as far as reading the mapping file and has ended.
EndedAfterMapping == pc \in {"done", "exit2", "exit3"}

\* The positions of main after the report step, under validation.
AfterReportStep == {"insert_map", "write_meta", "finalize", "close", "done", "exit3"}

\* The report file holds one row for each usable row of the mapping file, in
\* order, carrying that row's token.
ReportHasOneRowPerImport ==
    /\ reportFile.written
    /\ Len(reportFile.rows) = Len(UsableRows)
    /\ Len(reportFile.rows) = Len(feature_map_rows)
    /\ \A i \in 1..Len(UsableRows) :
          /\ reportFile.rows[i].token = Strip(UsableRows[i].token)
          /\ reportFile.rows[i].status \in Statuses

\* C11 as stated: whenever a mapping file is supplied and validation is on, a
\* build that read the mapping file has written the report by the time it ends,
\* whether it completes or aborts, with one row for each imported mapping.
C11_ReportAlwaysWritten ==
    (EndedAfterMapping /\ args.feature_map /\ args.validate_feature_map) =>
        ReportHasOneRowPerImport

\* C11 as amended: when a mapping file is supplied, validation is on and at
\* least one mapping is imported, the report is written before the mappings are
\* inserted and before the build ends, whether the build then completes or
\* aborts with exit code 3, with one row for each imported mapping; a build that
\* imports no mapping aborts with exit code 2 and writes no report.
C11_ReportWrittenUnlessNoImport ==
    (args.feature_map /\ args.validate_feature_map) =>
        /\ pc \in AfterReportStep => ReportHasOneRowPerImport
        /\ pc = "exit2" => (~reportFile.written /\ UsableRows = <<>>)

\* The build aborted with exit code 3 after writing a report that holds two
\* rows of one token.
C11_Witness ==
    /\ pc = "exit3"
    /\ reportFile.written
    /\ Len(reportFile.rows) = 2
    /\ reportFile.rows[1].token = reportFile.rows[2].token

\* A build under validation aborted with exit code 2 over a file of skipped rows.
C11_WitnessNoImport ==
    /\ pc = "exit2"
    /\ args.validate_feature_map
    /\ mapFile # <<>>

\* The positions of main after the import loop has run.
AfterImportLoop == {"check_rows", "report", "insert_map", "exit2", "exit3"}

\* What the claims say of one raw row of the mapping file.
TokenGiven(r) == Strip(r.token) # <<>>
FlagAffirmative(r) ==
    Upper(Strip(r.map_to_snomed)) \in
        {<<"T", "R", "U", "E">>, <<"1">>, <<"Y", "E", "S">>, <<"Y">>}
ConceptIdIsInteger(r) ==
    Strip(r.snomed_concept_id) # <<>> /\ IntParses(Strip(r.snomed_concept_id))

ShouldImport(r) == TokenGiven(r) /\ FlagAffirmative(r) /\ ConceptIdIsInteger(r)

ShouldImportRows == SelectSeq(mapFile, ShouldImport)

\* C12: once the import loop has run, the imported mappings are, in file order,
\* exactly the rows with a non-empty trimmed token, a flag that trimmed and
\* upper-cased is TRUE, 1, YES or Y, and a non-empty concept id that parses as an
\* integer; a skipped row yields no mapping and no report row, and the build
\* aborts with exit code 2 only when every row was skipped.
C12_ImportedIffUsable ==
    (args.feature_map /\ pc \in AfterImportLoop) =>
        /\ Len(feature_map_rows) = Len(ShouldImportRows)
        /\ \A i \in 1..Len(ShouldImportRows) :
              /\ feature_map_rows[i].feature_key = Strip(ShouldImportRows[i].token)
              /\ feature_map_rows[i].concept_id =
                     IntOf(Strip(ShouldImportRows[i].snomed_concept_id))
        /\ Len(report_rows) =
               (IF args.validate_feature_map THEN Len(ShouldImportRows) ELSE 0)
        /\ pc = "exit2" => ShouldImportRows = <<>>
        /\ exit_code \in {Running, "2", "3"}

\* A file of one imported and one skipped row went through the import loop and
\* the build went on to insert the one mapping.
C12_Witness ==
    /\ pc = "insert_map"
    /\ Len(mapFile) = 2
    /\ Len(feature_map_rows) = 1
    /\ ~ShouldImport(mapFile[2])

-----------------------------------------------------------------------------
(* Properties of the seed file. *)

\* A raw line that, trimmed and cut at the first '#', leaves something that is
\* not made of digits only.
LineNotNumeric(raw) ==
    LET rest == Strip(BeforeHash(Strip(raw)))
    IN  rest # <<>> /\ \E i \in 1..Len(rest) : rest[i] \notin Digits

BlankOrCommentOnly(raw) == Strip(raw) = <<>> \/ Head(Strip(raw)) = "#"

FirstNotNumeric ==
    CHOOSE i \in 1..Len(seedFile) :
        LineNotNumeric(seedFile[i]) /\ \A j \in 1..(i - 1) : ~LineNotNumeric(seedFile[j])

NumericLines == {i \in 1..Len(seedFile) : ~BlankOrCommentOnly(seedFile[i])}

\* C13: when some seed line is non-empty and not numeric after trimming and
\* comment-stripping, load_subset_concept_ids raises an error naming that line
\* and yields no id; the build then ends before a release row is read and
\* before the output file is opened, leaving the file as it was.  When no line
\* is like that, blank and comment-only lines are passed over and the ids of
\* the other lines are loaded.
C13_BadSeedLineFailsEagerly ==
    LET res == load_subset_concept_ids(seedFile)
    IN  IF \E i \in 1..Len(seedFile) : LineNotNumeric(seedFile[i])
        THEN /\ res.error
             /\ res.ids = {}
             /\ res.line = seedFile[FirstNotNumeric]
             /\ pc \in {"load_seed", "crashed"}
             /\ pc = "crashed" => exit_code = "1"
             /\ seed_ids = {} /\ kept_concepts = {} /\ desc_read = 0
             /\ concept_rows = <<>> /\ description_rows = <<>>
             /\ langrefset_rows = <<>>
             /\ ~conn.open
             /\ db \in InitialFiles
        ELSE /\ ~res.error
             /\ \A i \in 1..Len(seedFile) :
                    BlankOrCommentOnly(seedFile[i]) => ~SeedLineBad(seedFile[i])
             /\ res.ids = {DigitsToNat(Strip(BeforeHash(Strip(seedFile[i])))) :
                              i \in NumericLines}
             /\ pc \notin {"load_seed", "crashed"} => seed_ids = res.ids

\* The build ended on a seed file whose bad line follows a good one.
C13_Witness ==
    /\ pc = "crashed"
    /\ load_subset_concept_ids(seedFile).error
    /\ ~SeedLineBad(seedFile[1])
    /\ db = PriorBuildFile

\* A seed file holding a blank line and a comment-only line was loaded.
C13_WitnessComments ==
    /\ pc = "concepts"
    /\ \E i \in 1..Len(seedFile) : Strip(seedFile[i]) = <<>>
    /\ \E i \in 1..Len(seedFile) : seedFile[i] # <<>> /\ Head(seedFile[i]) = "#"
    /\ seed_ids = {1}

-----------------------------------------------------------------------------
(* Properties of the build as a whole. *)

\* C14: the reader has the four row streams, so a build given a well-formed
\* seed file and no mapping file goes through every stage and ends in the
\* completed state with exit code 0, never in an abort.
C14_PlainBuildCompletes ==
    (SeedFileWellFormed /\ ~args.feature_map /\ pc \in Ended) =>
        (pc = "done" /\ exit_code = "0")

\* What holds of the shipped reader: the build ends at the IS-A stage with the
\* schema committed and nothing else.
C14_ShippedReaderStopsAtIsa ==
    (rf2.methods = RF2SnapshotMethods /\ SeedFileWellFormed /\ pc \in Ended) =>
        /\ pc = "crashed"
        /\ exit_code = "1"
        /\ isa_edges = <<>>

\* The positions of main after insert_feature_snomed_map, when a mapping file
\* was given.
AfterInsertMap == {"write_meta", "finalize", "close", "done"}

\* The tables as the build sees them: the connection's while it is open, the
\* file's once it is closed.
StoredTables == IF conn.open THEN conn.tables ELSE db.tables

RowsOfToken(token) ==
    {i \in 1..Len(StoredTables["feature_snomed_map"]) :
        StoredTables["feature_snomed_map"][i].feature_key = token}

LastImportOf(token) ==
    ShouldImportRows[CHOOSE i \in 1..Len(ShouldImportRows) :
        /\ Strip(ShouldImportRows[i].token) = token
        /\ \A j \in (i + 1)..Len(ShouldImportRows) :
               Strip(ShouldImportRows[j].token) # token]

\* C15: after insert_feature_snomed_map the mapping table holds each token at
\* most once, and a token the mapping file imports, once or several times, is
\* stored with the concept id and the note of its last imported row.
C15_TokenStoredOnceLastWins ==
    (args.feature_map /\ pc \in AfterInsertMap) =>
        /\ \A i \in 1..Len(StoredTables["feature_snomed_map"]) :
              Cardinality(RowsOfToken(
                  StoredTables["feature_snomed_map"][i].feature_key)) = 1
        /\ \A k \in 1..Len(ShouldImportRows) :
              LET token == Strip(ShouldImportRows[k].token)
                  last == LastImportOf(token)
              IN  \E i \in RowsOfToken(token) :
                    LET stored == StoredTables["feature_snomed_map"][i]
                    IN  /\ stored.concept_id = IntOf(Strip(last.snomed_concept_id))
                        /\ stored.note = (IF Strip(last.notes) = <<>> THEN NoneText
                                          ELSE Strip(last.notes))
                        /\ stored.active = 1

\* One token was imported twice with different concept ids and notes, and the
\* completed build stored the second.
C15_Witness ==
    /\ pc = "done"
    /\ Len(ShouldImportRows) = 2
    /\ Strip(ShouldImportRows[1].token) = Strip(ShouldImportRows[2].token)
    /\ IntOf(Strip(ShouldImportRows[1].snomed_concept_id)) = 1
    /\ \E i \in 1..Len(db.tables["feature_snomed_map"]) :
          /\ db.tables["feature_snomed_map"][i].concept_id = 2
          /\ db.tables["feature_snomed_map"][i].note = <<"n">>

-----------------------------------------------------------------------------
(* Properties of a build run against a file that already holds rows. *)

NoDuplicateKeys(tables) ==
    \A t \in TableNames : Cardinality(Keys(t, tables[t])) = Len(tables[t])

\* The keys this build handed to the writer for a table.
KeysWritten(t) ==
    CASE t = "concept" -> ConceptRowIds
      [] t = "description" -> DescriptionRowIds
      [] t = "langrefset" ->
            {langrefset_rows[i].langrefset_id : i \in 1..Len(langrefset_rows)}
      [] t = "isa_edge" -> Keys("isa_edge", isa_edges)
      [] t = "feature_snomed_map" -> Keys("feature_snomed_map", feature_map_rows)
      [] t = "meta" -> Keys("meta", MetaRows)

\* A stored row whose key the current build did not write.
Orphans(t) == Keys(t, db.tables[t]) \ KeysWritten(t)

PriorKeysStay ==
    \A t \in TableNames :
        /\ Keys(t, db.tables[t]) \subseteq Keys(t, db'.tables[t])
        /\ (conn.open /\ conn'.open) =>
               Keys(t, conn.tables[t]) \subseteq Keys(t, conn'.tables[t])

-----------------------------------------------------------------------------
(* Properties of the reader's active_only filter. *)

ActivePositions(file) == {i \in 1..Len(file) : file[i].active = "1"}

\* The k-th position of the file, in file order, that holds an active row.
NthActive(file, k) ==
    CHOOSE i \in ActivePositions(file) :
        Cardinality({j \in ActivePositions(file) : j <= i}) = k

\* The stream holds the active rows of the file, all of them, in file order.
YieldsActiveInOrder(stream, file) ==
    /\ Len(stream) = Cardinality(ActivePositions(file))
    /\ \A k \in 1..Len(stream) : stream[k] = file[NthActive(file, k)]

ActiveIdsOf(file) == {file[i].id : i \in ActivePositions(file)}

\* C17: with active_only set each stream yields, in file order, exactly the
\* rows whose active column is the text "1", and with active_only unset it
\* yields every row; every concept, description and language row the extractor
\* keeps, and every name the validator's index holds, comes from a row whose
\* active column is "1".
C17_ActiveOnlyYieldsExactlyOnes ==
    /\ YieldsActiveInOrder(iter_concepts(rf2, TRUE), rf2.concepts)
    /\ YieldsActiveInOrder(iter_descriptions(rf2, TRUE), rf2.descriptions)
    /\ YieldsActiveInOrder(iter_language_refset(rf2, TRUE), rf2.langrefset)
    /\ iter_concepts(rf2, FALSE) = rf2.concepts
    /\ iter_descriptions(rf2, FALSE) = rf2.descriptions
    /\ iter_language_refset(rf2, FALSE) = rf2.langrefset
    /\ ConceptRowIds \subseteq ActiveIdsOf(rf2.concepts)
    /\ DescriptionRowIds \subseteq ActiveIdsOf(rf2.descriptions)
    /\ {langrefset_rows[i].langrefset_id : i \in 1..Len(langrefset_rows)}
           \subseteq ActiveIdsOf(rf2.langrefset)
    /\ \A c \in DOMAIN fsn_index :
          \E i \in ActivePositions(rf2.descriptions) :
              /\ rf2.descriptions[i].conceptId = c
              /\ rf2.descriptions[i].typeId = FSN_TYPE_ID
              /\ Strip(rf2.descriptions[i].term) = fsn_index[c]

\* The release holds a concept whose active column is a text other than "1" and
\* "0", a seed at that, and a description and a language row with no active
\* value at all; the extraction and the name index were built and left them out.
C17_Witness ==
    /\ pc = "check_rows"
    /\ rf2.concepts[2].active = "true"
    /\ 2 \in seed_ids
    /\ 2 \notin ConceptRowIds
    /\ Len(rf2.descriptions) = 4 /\ rf2.descriptions[4].active = NoneValue
    /\ Len(rf2.langrefset) = 4 /\ rf2.langrefset[4].active = NoneValue
    /\ fsn_index[2] = <<"b">>
    /\ Len(langrefset_rows) = 2

-----------------------------------------------------------------------------
(* Properties of the validator's effect on the mappings. *)

\* The tuple the claims expect for one imported row, whatever the options.
ExpectedTuple(r) ==
    [feature_key |-> Strip(r.token),
     concept_id |-> IntOf(Strip(r.snomed_concept_id)),
     active |-> 1,
     note |-> IF Strip(r.notes) = <<>> THEN NoneText ELSE Strip(r.notes)]

InRelease(cid) == \E i \in 1..Len(rf2.concepts) : rf2.concepts[i].id = cid

\* C18: the tuples handed to insert_feature_snomed_map are those of the imported
\* rows, in order, each with its own token, concept id, active 1 and note,
\* whether validation is on or off and whatever status the report gives the
\* row; with validation off no build ends with exit code 3, and one that
\* imports a mapping does not end with exit code 2, also when the mapping's
\* concept is neither in the release nor kept.
C18_ValidatorLeavesMappingsAlone ==
    /\ (args.feature_map /\ pc \in (AfterImportLoop \cup AfterInsertMap)) =>
          /\ Len(feature_map_rows) = Len(ShouldImportRows)
          /\ \A i \in 1..Len(ShouldImportRows) :
                feature_map_rows[i] = ExpectedTuple(ShouldImportRows[i])
    /\ (args.feature_map /\ pc \in AfterInsertMap) =>
          \A i \in 1..Len(ShouldImportRows) :
              ExpectedTuple(LastImportOf(Strip(ShouldImportRows[i].token)))
                  \in Range(StoredTables["feature_snomed_map"])
    /\ ~args.validate_feature_map =>
          /\ exit_code # "3"
          /\ ShouldImportRows # <<>> => exit_code # "2"
          /\ report_rows = <<>>

\* With validation off, a mapping to concept 9, which the release does not
\* hold and the build did not keep, was stored by a completed build as given.
C18_Witness ==
    /\ pc = "done"
    /\ ~args.validate_feature_map
    /\ ~InRelease(9) /\ 9 \notin ConceptRowIds
    /\ \E i \in 1..Len(db.tables["feature_snomed_map"]) :
          db.tables["feature_snomed_map"][i] =
              [feature_key |-> <<"t">>, concept_id |-> 9, active |-> 1,
               note |-> NoneText]

\* Under validation, a mapping reported fsn_not_found_in_rf2 and one reported
\* fsn_mismatch were stored by a completed build.
C18_WitnessValidated ==
    /\ pc = "done"
    /\ args.validate_feature_map
    /\ \E i \in 1..Len(report_rows) : report_rows[i].status = "fsn_not_found_in_rf2"
    /\ \E i \in 1..Len(report_rows) : report_rows[i].status = "fsn_mismatch"
    /\ Len(db.tables["feature_snomed_map"]) = 2

-----------------------------------------------------------------------------
(* Properties of the order of the stages. *)

\* Everything this build kept and the metadata are in the given tables.
BuildIsIn(tables) ==
    /\ \A t \in TableNames \ {"feature_snomed_map"} :
          KeysWritten(t) \subseteq Keys(t, tables[t])
    /\ args.feature_map =>
          KeysWritten("feature_snomed_map")
              \subseteq Keys("feature_snomed_map", tables["feature_snomed_map"])

\* What holds in a state because of the order of the stages.
StagesInOrderState ==
    /\ (desc_read > 0 \/ description_rows # <<>>) =>
          /\ pc \notin {"load_seed", "concepts", "descriptions"}
          /\ ConceptRowIds = seed_ids \cap ActiveIdsOf(rf2.concepts)
    /\ langrefset_rows # <<>> =>
          pc \notin {"load_seed", "concepts", "descriptions", "langrefset"}
    /\ (conn.open /\ conn.tables # db.tables) => db.schema
    /\ pc \in {"close", "done"} =>
          /\ db.journal_mode = "delete"
          /\ conn.open => conn.tables = db.tables
          /\ BuildIsIn(db.tables)

\* What holds of a step because of the order of the stages.
StagesInOrderStep ==
    /\ (conn.open /\ conn'.open /\ conn'.tables # conn.tables) => db.schema
    /\ (pc = "descriptions" /\ pc' # pc) =>
          /\ kept_concepts = seed_ids \cap ActiveIdsOf(rf2.concepts)
          /\ UNCHANGED <<kept_concepts, concept_rows>>
    /\ (pc = "langrefset" /\ pc' # pc) =>
          UNCHANGED <<kept_concepts, concept_rows, kept_desc_ids,
                      description_rows, desc_read>>
    /\ (pc = "finalize" /\ pc' # pc) =>
          /\ BuildIsIn(conn.tables)
          /\ pc' = "close"
          /\ db'.tables = conn.tables
    /\ (pc = "close" /\ pc' # pc) =>
          /\ pc' = "done"
          /\ ~conn'.open
          /\ db' = db

\* C19: the schema script has run before the first row is inserted; the concept
\* loop is over before a description is examined and the description loop
\* before a language row is examined; finalize comes after every bulk load and
\* the metadata write, leaves nothing uncommitted and the journal mode DELETE,
\* and only close follows it.
C19_StagesInOrder == []StagesInOrderState /\ [][StagesInOrderStep]_vars

\* A completed build that loaded rows into all six tables.
C19_Witness ==
    /\ pc = "done"
    /\ \A t \in TableNames : KeysWritten(t) # {}
    /\ BuildIsIn(db.tables)
    /\ db.journal_mode = "delete"

-----------------------------------------------------------------------------
(* Properties of the description cap. *)

\* The number of descriptions to keep: all the eligible ones, or the cap.
ExpectedKept ==
    IF call.limit_descriptions = 0 \/ Len(EligibleDescriptions) < call.limit_descriptions
    THEN Len(EligibleDescriptions)
    ELSE call.limit_descriptions

ActiveDescriptions == SelectSeq(rf2.descriptions, LAMBDA d : d.active = "1")

\* The position, in the stream of active descriptions, of the n-th eligible one.
PositionOfEligible(n) ==
    CHOOSE p \in 1..Len(ActiveDescriptions) :
        /\ Eligible(ActiveDescriptions[p])
        /\ Cardinality({q \in 1..p : Eligible(ActiveDescriptions[q])}) = n

\* The rows the description loop may read: up to the row that fills the cap,
\* or the whole stream when the cap is not reached.
ExpectedRead ==
    IF call.limit_descriptions > 0
       /\ Len(EligibleDescriptions) >= call.limit_descriptions
    THEN PositionOfEligible(call.limit_descriptions)
    ELSE Len(ActiveDescriptions)

\* C20: once the description loop is over, the kept descriptions are the
\* eligible ones in stream order, all of them when the cap is 0 and the first
\* min(L, number eligible) of them under a cap L > 0; their count never exceeds
\* L, and no row after the one that fills the cap is read.
C20_CapKeepsFirstEligible ==
    pc \in {"langrefset", "subset_done"} =>
        /\ Len(description_rows) = ExpectedKept
        /\ \A i \in 1..ExpectedKept :
              /\ description_rows[i].description_id = EligibleDescriptions[i].id
              /\ description_rows[i].concept_id = EligibleDescriptions[i].conceptId
        /\ kept_desc_ids = {EligibleDescriptions[i].id : i \in 1..ExpectedKept}
        /\ call.limit_descriptions > 0 =>
              Len(description_rows) <= call.limit_descriptions
        /\ desc_read = ExpectedRead

\* Under a cap of 1, a kept concept whose only eligible description comes
\* second in the stream ends with no kept description, and the second row
\* was not read.
C20_Witness ==
    /\ pc = "subset_done"
    /\ call.limit_descriptions = 1
    /\ Len(EligibleDescriptions) = 2
    /\ desc_read = 1
    /\ \E c \in kept_concepts :
          /\ \A i \in 1..Len(description_rows) : description_rows[i].concept_id # c
          /\ EligibleDescriptions[2].conceptId = c

-----------------------------------------------------------------------------
(* Properties of the language allow-list. *)

\* The allow-list of the call: the one passed, or the two English refsets.
AllowList ==
    IF call.lang_refset_ids.given THEN call.lang_refset_ids.ids
    ELSE {EN_US_LANGREFSET, EN_GB_LANGREFSET}

\* The active language rows that reference a kept description, in file order.
LangRowsOfKeptDescriptions ==
    SelectSeq(rf2.langrefset, LAMBDA l :
        l.active = "1" /\ l.referencedComponentId \in DescriptionRowIds)

C21_WitnessFiltered ==
    /\ pc = "subset_done"
    /\ call.lang_refset_ids.ids = {EN_US_LANGREFSET}
    /\ langrefset_rows = <<>>
    /\ \E i \in 1..Len(LangRowsOfKeptDescriptions) :
          LangRowsOfKeptDescriptions[i].refsetId = EN_GB_LANGREFSET

-----------------------------------------------------------------------------
(* Properties of the aborts with exit codes 2 and 3. *)

Aborted == pc \in {"exit2", "exit3"}

\* C22: a build that aborts with exit code 2 or 3 has called neither
\* insert_feature_snomed_map nor write_meta nor finalize: in the aborted state
\* the connection is gone, the file holds in every table exactly what it held
\* before the build, hence no mapping row, no metadata record and none of the
\* concept, description, language and IS-A rows of this build.
C22_AbortLeavesFileAsFound ==
    Aborted =>
        /\ exit_code \in {"2", "3"}
        /\ ~conn.open
        /\ db.schema
        /\ \E f \in InitialFiles : db.tables = f.tables
        /\ db.tables["meta"] = <<>> => db.tables = EmptyTables
        /\ db.tables["meta"] # <<>> => db.tables = PriorBuildFile.tables

\* No step that ends in an abort comes after the mapping insert, and the rows
\* the bulk loads had handed to the connection are dropped with it.
AbortStep ==
    (pc' \in {"exit2", "exit3"} /\ pc' # pc) =>
        /\ pc \in {"check_rows", "report"}
        /\ conn.open
        /\ conn.tables["feature_snomed_map"] = db.tables["feature_snomed_map"]
        /\ conn.tables["meta"] = db.tables["meta"]
        /\ ConceptRowIds \subseteq Keys("concept", conn.tables["concept"])
        /\ db' = db

C22_AbortComesBeforeMappingInsert == [][AbortStep]_vars

\* A build that had bulk-loaded concepts, descriptions, language rows and IS-A
\* edges aborted with exit code 3 and left a fresh file with empty tables.
C22_Witness ==
    /\ pc = "exit3"
    /\ concept_rows # <<>> /\ description_rows # <<>>
    /\ langrefset_rows # <<>> /\ isa_edges # <<>>
    /\ feature_map_rows # <<>>
    /\ db.tables = EmptyTables

\* A build run against the file of a prior build aborted with exit code 3 and
\* left the prior build's rows, and nothing else, in the file.
C22_WitnessPriorFile ==
    /\ pc = "exit3"
    /\ 1 \in ConceptRowIds
    /\ db.tables = PriorBuildFile.tables
====
